---- MODULE Spec2Model ----
(***************************************************************************)
(* Model of metagpt/actions/write_prd.py: the WritePRD action.  One run of *)
(* WritePRD.run is a single coroutine; every await is a suspension point   *)
(* and is one step of the model.  No try/except exists in the file, so an  *)
(* exception raised by any collaborator leaves run() at once.              *)
(***************************************************************************)
EXTENDS Integers, Sequences, FiniteSets, TLC

VARIABLES
    pc,              \* position of the run() coroutine
    docs,            \* docs/ file repository: filename -> content
    prds,            \* docs/prds file repository: filename -> content
    project_name,    \* CONFIG.project_name
    project_path,    \* CONFIG.project_path
    requirement_doc, \* local of run(): the requirement Document
    prd_docs,        \* local of run(): documents of get_all() not yet visited
    prd_doc,         \* local: the document in _update_prd
    change_files,    \* local of run(): Documents().docs
    result,          \* what run() returned or raised
    caller,          \* which call of _update_prd in run() is active
    trace,           \* calls made to the collaborators, in order
    init,            \* snapshot of the stores and CONFIG at the start of run
    answer           \* the oracle answer a classifier is applied to (SpecClassify)

vars == <<pc, docs, prds, project_name, project_path, requirement_doc,
          prd_docs, prd_doc, change_files, result, caller, trace, init, answer>>

----------------------------------------------------------------------------
(* Bounds *)

MaxPrds == 2
MaxResLen == 3
MaxAnswerLen == 4

----------------------------------------------------------------------------
(* Constants of metagpt.const *)

REQUIREMENT_FILENAME == "requirement.txt"
BUGFIX_FILENAME == "bugfix.txt"

----------------------------------------------------------------------------
(* Values *)

None == "None"

\* Requirement texts; the empty text is a valid stored content.
Texts == {"", "req"}

\* A path is None or a string; a string path is absolute or not and has
\* segments.  "" is [abs FALSE, no segments], "/" is [abs TRUE, no segments].
PathNone == [none |-> TRUE, abs |-> FALSE, segs |-> <<>>]
PathEmpty == [none |-> FALSE, abs |-> FALSE, segs |-> <<>>]
PathRoot == [none |-> FALSE, abs |-> TRUE, segs |-> <<>>]
PathProj == [none |-> FALSE, abs |-> TRUE, segs |-> <<"ws", "proj_dir">>]
Paths == {PathNone, PathEmpty, PathRoot, PathProj}

\* Python truthiness of CONFIG.project_path
PathBound(p) == ~p.none /\ (p.abs \/ p.segs # <<>>)

\* Path(p).name : the last segment, "" when there is none
PathName(p) == IF p.segs = <<>> THEN "" ELSE p.segs[Len(p.segs)]

\* Pre-bound project names ("" is unbound)
Names == {"", "preset"}

\* The fields of a PRD the code reads, plus the rest of the body.
ProjectNameField == {"", "cand"}
ChartField == {"", "quadrantChart"}
BodyField == {"v0", "v1"}
Contents == [name : ProjectNameField, chart : ChartField, body : BodyField]

\* The content of a PRD written by an earlier run
StoredPrd == [name |-> "cand", chart |-> "quadrantChart", body |-> "v0"]

\* The text a bug report of an earlier run left under BUGFIX_FILENAME
StaleBug == "stale"

\* PRD filenames; filenames 1..MaxPrds may exist before the run
Filenames == 1 .. (MaxPrds + 1)

NoDoc == [filename |-> 0, content |-> [name |-> "", chart |-> "", body |-> ""]]

Document(filename, content) == [filename |-> filename, content |-> content]

\* Documents().docs, a dict filename -> Document content
EmptyDocs == [k \in {} |-> NoDoc.content]

Put(f, k, v) == [x \in (DOMAIN f) \cup {k} |-> IF x = k THEN v ELSE f[x]]
Remove(f, k) == [x \in (DOMAIN f) \ {k} |-> f[x]]

Event(op, key, val) == [op |-> op, key |-> key, val |-> val]

\* TextOracle answers to the two classification prompts
Alphabet == {"Y", "E", "S", "N", "O"}
Responses == UNION {[1 .. n -> Alphabet] : n \in 0 .. MaxResLen}

\* Mutation of ContainsYES: res.startswith("YES")
ContainsYES_Prefix(res) ==
    Len(res) >= 3 /\ res[1] = "Y" /\ res[2] = "E" /\ res[3] = "S"

\* "YES" in res
ContainsYES(res) ==
    \E i \in 1 .. (Len(res) - 2) :
        res[i] = "Y" /\ res[i + 1] = "E" /\ res[i + 2] = "S"

----------------------------------------------------------------------------

Init ==
    /\ pc = "Start"
    /\ \E D \in SUBSET {REQUIREMENT_FILENAME, BUGFIX_FILENAME} :
           docs \in {f \in [D -> Texts \cup {StaleBug}] :
                        \A x \in D : (f[x] = StaleBug) <=> (x = BUGFIX_FILENAME)}
    /\ \E n \in 0 .. MaxPrds : prds = [k \in 1 .. n |-> StoredPrd]
    /\ project_name \in Names
    /\ project_path \in Paths
    /\ requirement_doc = None
    /\ prd_docs = {}
    /\ prd_doc = NoDoc
    /\ change_files = EmptyDocs
    /\ caller = "none"
    /\ result = [kind |-> "none", filename |-> ""]
    /\ trace = <<>>
    /\ init = [docs |-> docs, prds |-> prds,
               project_name |-> project_name, project_path |-> project_path]
    /\ answer = <<>>

\* Mutation of Raise: the exception is caught and _update_prd goes on to
\* save the document
Raise_Swallowed(kind) ==
    /\ pc' = "SavePrd"
    /\ result' = [kind |-> kind, filename |-> ""]

\* An exception leaves run(): nothing in the file catches it
Raise(kind) ==
    /\ pc' = "Raised"
    /\ result' = [kind |-> kind, filename |-> ""]

----------------------------------------------------------------------------
(* WritePRD._rename_workspace *)

\* Mutation of RenameWorkspace: it returns after binding the name of the PRD
RenameWorkspace_ReturnAfterBind(name, path, ws_name) ==
    IF PathBound(path) /\ name = ""
    THEN [project_name |-> PathName(path), renamed |-> <<>>]
    ELSE IF name = ""
    THEN [project_name |-> ws_name, renamed |-> <<>>]
    ELSE [project_name |-> name,
          renamed |-> <<Event("rename_root", 0, name)>>]

\* Mutation of RenameWorkspace: the test "if not CONFIG.project_name" before
\* the name of the PRD is bound is missing
RenameWorkspace_AlwaysRebind(name, path, ws_name) ==
    IF PathBound(path) /\ name = ""
    THEN [project_name |-> PathName(path), renamed |-> <<>>]
    ELSE [project_name |-> ws_name,
          renamed |-> <<Event("rename_root", 0, ws_name)>>]

\* The new CONFIG.project_name and the calls of rename_root it makes.
RenameWorkspace(name, path, ws_name) ==
    IF PathBound(path) /\ name = ""
    THEN [project_name |-> PathName(path), renamed |-> <<>>]
    ELSE LET bound == IF name = "" THEN ws_name ELSE name
         IN  [project_name |-> bound,
              renamed |-> <<Event("rename_root", 0, bound)>>]

----------------------------------------------------------------------------
(* WritePRD.run, bug route *)

\* docs_file_repo.get(filename=REQUIREMENT_FILENAME)
GetRequirement ==
    /\ pc = "Start"
    /\ \/ /\ REQUIREMENT_FILENAME \in DOMAIN docs
          /\ requirement_doc' = docs[REQUIREMENT_FILENAME]
          /\ pc' = "ClassifyingBug"
          /\ UNCHANGED result
       \/ /\ Raise("InputError")
          /\ UNCHANGED requirement_doc
    /\ trace' = Append(trace, Event("get", 0, REQUIREMENT_FILENAME))
    /\ UNCHANGED <<docs, prds, project_name, project_path, prd_docs, prd_doc,
                   change_files, caller, init, answer>>

\* Mutation of AfterBugCheck: the test of _is_bugfix negated
AfterBugCheck_Negated(is_bugfix) ==
    IF ~is_bugfix THEN "SaveBugfix" ELSE "DeleteBugfix"

\* Mutation of AfterBugCheck: the else branch that deletes the bug report
\* is missing
AfterBugCheck_NoDelete(is_bugfix) ==
    IF is_bugfix THEN "SaveBugfix" ELSE "GetAll"

\* Mutation of AfterBugCheck: the bug route clears the requirement without
\* saving the bug report first
AfterBugCheck_ClearFirst(is_bugfix) ==
    IF is_bugfix THEN "ClearRequirement" ELSE "DeleteBugfix"

\* if await self._is_bugfix(...): the bug route, else: the PRD route
AfterBugCheck(is_bugfix) ==
    IF is_bugfix THEN "SaveBugfix" ELSE "DeleteBugfix"

\* self._is_bugfix(requirement_doc.content)
IsBugfix ==
    /\ pc = "ClassifyingBug"
    /\ \/ \E res \in Responses :
             /\ pc' = AfterBugCheck(ContainsYES(res))
             /\ trace' = Append(trace, Event("is_bugfix", 0,
                                 IF ContainsYES(res) THEN "True" ELSE "False"))
             /\ UNCHANGED result
       \/ /\ Raise("OracleError")
          /\ trace' = Append(trace, Event("is_bugfix", 0, "raise"))
    /\ UNCHANGED <<docs, prds, project_name, project_path, requirement_doc,
                   prd_docs, prd_doc, change_files, caller, init, answer>>

\* docs_file_repo.save(filename=BUGFIX_FILENAME, content=requirement_doc.content)
SaveBugfix ==
    /\ pc = "SaveBugfix"
    /\ \/ /\ docs' = Put(docs, BUGFIX_FILENAME, requirement_doc)
          /\ pc' = "ClearRequirement"
          /\ UNCHANGED result
       \/ /\ Raise("StoreError")
          /\ UNCHANGED docs
    /\ trace' = Append(trace, Event("save", 0, BUGFIX_FILENAME))
    /\ UNCHANGED <<prds, project_name, project_path, requirement_doc,
                   prd_docs, prd_doc, change_files, caller, init, answer>>

\* Mutation of BugFixMessage: the record names the requirement file
BugFixMessage_WrongFile ==
    [kind |-> "BugFixContext", filename |-> REQUIREMENT_FILENAME]

\* Message(content=bug_fix.json(), instruct_content=bug_fix, ...) with
\* bug_fix = BugFixContext(filename=BUGFIX_FILENAME)
BugFixMessage ==
    [kind |-> "BugFixContext", filename |-> BUGFIX_FILENAME]

\* docs_file_repo.save(filename=REQUIREMENT_FILENAME, content="") and the
\* return of the Message that carries BugFixContext(filename=BUGFIX_FILENAME)
ClearRequirement ==
    /\ pc = "ClearRequirement"
    /\ \/ /\ docs' = Put(docs, REQUIREMENT_FILENAME, "")
          /\ pc' = "RoutedAsBug"
          /\ result' = BugFixMessage
       \/ /\ Raise("StoreError")
          /\ UNCHANGED docs
    /\ trace' = Append(trace, Event("save", 0, REQUIREMENT_FILENAME))
    /\ UNCHANGED <<prds, project_name, project_path, requirement_doc,
                   prd_docs, prd_doc, change_files, caller, init, answer>>

\* docs_file_repo.delete(filename=BUGFIX_FILENAME)
DeleteBugfix ==
    /\ pc = "DeleteBugfix"
    /\ \/ /\ docs' = Remove(docs, BUGFIX_FILENAME)
          /\ pc' = "GetAll"
          /\ UNCHANGED result
       \/ /\ Raise("StoreError")
          /\ UNCHANGED docs
    /\ trace' = Append(trace, Event("delete", 0, BUGFIX_FILENAME))
    /\ UNCHANGED <<prds, project_name, project_path, requirement_doc,
                   prd_docs, prd_doc, change_files, caller, init, answer>>

----------------------------------------------------------------------------
(* WritePRD.run, PRD route *)

\* Mutation of LoopNext: the tail call is made whatever change_files holds
LoopNext_AlwaysGenerate(remaining, docs_changed) ==
    IF remaining # {} THEN "ScanningPRDs" ELSE "Generating"

\* Mutation of LoopNext: the tail call is never made
LoopNext_NeverGenerate(remaining, docs_changed) ==
    IF remaining # {} THEN "ScanningPRDs" ELSE "Done"

\* Mutation of LoopNext: the test of change_files.docs is negated
LoopNext_NegatedTest(remaining, docs_changed) ==
    IF remaining # {} THEN "ScanningPRDs"
    ELSE IF DOMAIN docs_changed # {} THEN "Generating"
    ELSE "Done"

\* Mutation of LoopNext: the loop is left after the first rewritten PRD
LoopNext_StopAtFirst(remaining, docs_changed) ==
    IF remaining # {} /\ DOMAIN docs_changed = {} THEN "ScanningPRDs"
    ELSE IF DOMAIN docs_changed = {} THEN "Generating"
    ELSE "Done"

\* Where run() goes after an iteration of the for loop: the next document,
\* the tail call of _update_prd, or the return of the ActionOutput.
LoopNext(remaining, docs_changed) ==
    IF remaining # {} THEN "ScanningPRDs"
    ELSE IF DOMAIN docs_changed = {} THEN "Generating"
    ELSE "Done"

Return(next) ==
    result' = IF next = "Done" THEN [kind |-> "Documents", filename |-> ""]
              ELSE result

\* prds_file_repo.get_all()
GetAll ==
    /\ pc = "GetAll"
    /\ \/ /\ prd_docs' = {Document(k, prds[k]) : k \in DOMAIN prds}
          /\ pc' = LoopNext(prd_docs', change_files)
          /\ UNCHANGED result
       \/ /\ Raise("StoreError")
          /\ UNCHANGED prd_docs
    /\ trace' = Append(trace, Event("get_all", 0, ""))
    /\ UNCHANGED <<docs, prds, project_name, project_path, requirement_doc,
                   prd_doc, change_files, caller, init, answer>>

\* Mutation of UpdatePrdBranch: the test of _is_relative_to is negated
UpdatePrdBranch_Negated(related) == IF ~related THEN "Merging" ELSE "None"

\* _update_prd for a stored PRD: elif await self._is_relative_to(...) the
\* merge, else: return None
UpdatePrdBranch(related) == IF related THEN "Merging" ELSE "None"

\* for prd_doc in prd_docs: _update_prd(...) up to self._is_relative_to
IsRelativeTo ==
    /\ pc = "ScanningPRDs"
    /\ \E d \in prd_docs :
          /\ prd_docs' = prd_docs \ {d}
          /\ \/ \E res \in Responses :
                   /\ trace' = Append(trace, Event("is_relative_to", d.filename,
                                 IF ContainsYES(res) THEN "True" ELSE "False"))
                   /\ IF UpdatePrdBranch(ContainsYES(res)) = "Merging"
                      THEN /\ pc' = "Merging"
                           /\ prd_doc' = d
                           /\ caller' = "loop"
                           /\ UNCHANGED result
                      ELSE /\ pc' = LoopNext(prd_docs', change_files)
                           /\ Return(pc')
                           /\ UNCHANGED <<prd_doc, caller>>
             \/ /\ Raise("OracleError")
                /\ trace' = Append(trace, Event("is_relative_to", d.filename, "raise"))
                /\ UNCHANGED <<prd_doc, caller>>
    /\ UNCHANGED <<docs, prds, project_name, project_path, requirement_doc,
                   change_files, init, answer>>

\* WritePRD._merge, called from _update_prd when _is_relative_to is true
Merge ==
    /\ pc = "Merging"
    /\ LET name == IF project_name = "" THEN PathName(project_path)
                   ELSE project_name
       IN  IF project_name = "" /\ project_path.none
           THEN \* Path(None) raises TypeError
                /\ Raise("TypeError")
                /\ trace' = Append(trace, Event("merge", prd_doc.filename, "raise"))
                /\ UNCHANGED <<project_name, prd_doc>>
           ELSE \/ \E prd \in Contents :
                      LET rw == RenameWorkspace(name, project_path, prd.name)
                      IN  /\ prd_doc' = Document(prd_doc.filename, prd)
                          /\ project_name' = rw.project_name
                          /\ trace' = Append(trace,
                                 Event("merge", prd_doc.filename, "ok")) \o rw.renamed
                          /\ pc' = "SavePrd"
                          /\ UNCHANGED result
                \/ \E e \in {"OracleError", "ParseError"} :
                      /\ Raise(e)
                      /\ project_name' = name
                      /\ trace' = Append(trace,
                                 Event("merge", prd_doc.filename, "raise"))
                      /\ UNCHANGED prd_doc
    /\ UNCHANGED <<docs, prds, project_path, requirement_doc, prd_docs,
                   change_files, caller, init, answer>>

\* FileRepository.new_filename(): a name no stored PRD has
NewFilenames(stored) == Filenames \ DOMAIN stored

\* _update_prd(prd_doc=None): _run_new_requirement and the new Document
Generate ==
    /\ pc = "Generating"
    /\ \/ \E prd \in Contents, k \in NewFilenames(prds) :
             LET rw == RenameWorkspace(project_name, project_path, prd.name)
             IN  /\ prd_doc' = Document(k, prd)
                 /\ project_name' = rw.project_name
                 /\ trace' = Append(trace, Event("generate", k, "ok")) \o rw.renamed
                 /\ pc' = "SavePrd"
                 /\ caller' = "tail"
                 /\ UNCHANGED result
       \/ \E e \in {"OracleError", "ParseError"} :
             /\ Raise(e)
             /\ trace' = Append(trace, Event("generate", 0, "raise"))
             /\ UNCHANGED <<prd_doc, project_name, caller>>
    /\ UNCHANGED <<docs, prds, project_path, requirement_doc, prd_docs,
                   change_files, init, answer>>

\* Mutation of Persist: the document is written under the next filename
Persist_OtherFilename(stored, doc) == Put(stored, doc.filename + 1, doc.content)

\* Mutation of Persist: only a new document is written, a merged one is not
Persist_OnlyNew(stored, doc) ==
    IF doc.filename \in DOMAIN stored THEN stored
    ELSE Put(stored, doc.filename, doc.content)

\* Mutation of Persist: the document is not written to the repository
Persist_Skipped(stored, doc) == stored

\* prds_file_repo.save(filename=new_prd_doc.filename, content=new_prd_doc.content)
Persist(stored, doc) == Put(stored, doc.filename, doc.content)

\* The save in _update_prd
SavePrd ==
    /\ pc = "SavePrd"
    /\ \/ /\ prds' = Persist(prds, prd_doc)
          /\ pc' = "SaveCompetitiveAnalysis"
          /\ trace' = Append(trace, Event("save_prd", prd_doc.filename, "ok"))
          /\ UNCHANGED result
       \/ /\ Raise("StoreError")
          /\ trace' = Append(trace, Event("save_prd", prd_doc.filename, "raise"))
          /\ UNCHANGED prds
    /\ UNCHANGED <<docs, project_name, project_path, requirement_doc, prd_docs,
                   prd_doc, change_files, caller, init, answer>>

\* WritePRD._save_competitive_analysis(new_prd_doc)
SaveCompetitiveAnalysis ==
    /\ pc = "SaveCompetitiveAnalysis"
    /\ LET quadrant_chart == prd_doc.content.chart
       IN  IF quadrant_chart = ""
           THEN /\ pc' = "SavePdf"
                /\ UNCHANGED <<trace, result>>
           ELSE \/ /\ pc' = "SavePdf"
                   /\ trace' = Append(trace,
                          Event("mermaid_to_file", prd_doc.filename, "ok"))
                   /\ UNCHANGED result
                \/ /\ Raise("RenderError")
                   /\ trace' = Append(trace,
                          Event("mermaid_to_file", prd_doc.filename, "raise"))
    /\ UNCHANGED <<docs, prds, project_name, project_path, requirement_doc,
                   prd_docs, prd_doc, change_files, caller, init, answer>>

\* WritePRD._save_pdf(new_prd_doc), the return of _update_prd and the
\* statements of run() up to its next await or its return
SavePdf ==
    /\ pc = "SavePdf"
    /\ \/ /\ change_files' = Put(change_files, prd_doc.filename, prd_doc.content)
          /\ pc' = IF caller = "loop" THEN LoopNext(prd_docs, change_files')
                   ELSE "Done"
          /\ Return(pc')
          /\ trace' = Append(trace, Event("save_as", prd_doc.filename, "ok"))
       \/ /\ Raise("ExportError")
          /\ trace' = Append(trace, Event("save_as", prd_doc.filename, "raise"))
          /\ UNCHANGED change_files
    /\ UNCHANGED <<docs, prds, project_name, project_path, requirement_doc,
                   prd_docs, prd_doc, caller, init, answer>>

----------------------------------------------------------------------------

Next ==
    \/ GetRequirement
    \/ IsBugfix
    \/ SaveBugfix
    \/ ClearRequirement
    \/ DeleteBugfix
    \/ GetAll
    \/ IsRelativeTo
    \/ Merge
    \/ Generate
    \/ SavePrd
    \/ SaveCompetitiveAnalysis
    \/ SavePdf

Spec == Init /\ [][Next]_vars

----------------------------------------------------------------------------
(* What the trace says of a run *)

Events(op) == {i \in DOMAIN trace : trace[i].op = op}
EventsOf(op, val) == {i \in DOMAIN trace : trace[i].op = op /\ trace[i].val = val}

BugfixTrue == EventsOf("is_bugfix", "True") # {}
BugfixFalse == EventsOf("is_bugfix", "False") # {}
Related == {trace[i].key : i \in EventsOf("is_relative_to", "True")}
Classified == {trace[i].key : i \in Events("is_relative_to")}
Generated == {trace[i].key : i \in EventsOf("generate", "ok")}
Returned == pc \in {"RoutedAsBug", "Done"}
Ended == pc \in {"RoutedAsBug", "Done", "Raised"}
PrdOps == {"get_all", "is_relative_to", "merge", "generate", "save_prd",
           "mermaid_to_file", "save_as", "rename_root"}

----------------------------------------------------------------------------
(* Claims *)

\* C1: when _is_bugfix is true and run() returns, it returns the BugFixContext
\* that names the bug-report file, the bug-report file holds the text the
\* requirement file had, and the requirement file is stored empty.
C1_BugRouteResult ==
    (BugfixTrue /\ Returned) =>
        /\ result = [kind |-> "BugFixContext", filename |-> BUGFIX_FILENAME]
        /\ BUGFIX_FILENAME \in DOMAIN docs
        /\ docs[result.filename] = init.docs[REQUIREMENT_FILENAME]
        /\ docs[REQUIREMENT_FILENAME] = ""

C1_Witness ==
    /\ pc = "RoutedAsBug"
    /\ init.docs[REQUIREMENT_FILENAME] = "req"
    /\ BUGFIX_FILENAME \in DOMAIN init.docs
    /\ docs[BUGFIX_FILENAME] = "req"

\* C2: in a run where _is_bugfix was true, no PRD is enumerated, classified,
\* merged, generated or saved, CONFIG is not touched, and no Documents
\* change set is built or returned.
C2_BugRouteExclusive ==
    BugfixTrue =>
        /\ \A i \in DOMAIN trace : trace[i].op \notin PrdOps
        /\ prds = init.prds
        /\ project_name = init.project_name
        /\ project_path = init.project_path
        /\ DOMAIN change_files = {}
        /\ result.kind # "Documents"

C2_Witness ==
    /\ pc = "RoutedAsBug"
    /\ DOMAIN init.prds # {}
    /\ result.kind = "BugFixContext"

\* C3: with N >= 1 stored PRDs of which K >= 1 were classified related, a
\* run that returns gives a change set whose keys are exactly those K
\* filenames, nothing was generated, and every merged document is stored
\* under the filename it had.
C3_MergedOnly ==
    (pc = "Done" /\ Related # {}) =>
        /\ result.kind = "Documents"
        /\ DOMAIN change_files = Related
        /\ Related \subseteq DOMAIN init.prds
        /\ Events("generate") = {}
        /\ DOMAIN prds = DOMAIN init.prds
        /\ \A k \in Related : prds[k] = change_files[k]

C3_Witness ==
    /\ pc = "Done"
    /\ Cardinality(DOMAIN init.prds) = 2
    /\ Cardinality(Related) = 1
    /\ Classified = DOMAIN init.prds

\* C4: with N >= 1 stored PRDs of which none was classified related, a run
\* that returns generated exactly one PRD under a filename no stored PRD
\* had, returns a change set holding only it, and the N stored PRDs have
\* the content they had.
C4_GenerateWhenNoneRelated ==
    (pc = "Done" /\ DOMAIN init.prds # {} /\ Related = {}) =>
        /\ Cardinality(Events("generate")) = 1
        /\ Cardinality(Generated) = 1
        /\ Generated \cap DOMAIN init.prds = {}
        /\ DOMAIN change_files = Generated
        /\ DOMAIN prds = DOMAIN init.prds \cup Generated
        /\ \A k \in DOMAIN init.prds : prds[k] = init.prds[k]
        /\ Events("merge") = {}

C4_Witness ==
    /\ pc = "Done"
    /\ Cardinality(DOMAIN init.prds) = 2
    /\ Related = {}
    /\ Classified = DOMAIN init.prds
    /\ Cardinality(DOMAIN change_files) = 1

\* C5: with no stored PRD and a requirement that is not a bug, a run that
\* returns created exactly one PRD, stored it, and returns it as the only
\* entry of the change set; _is_relative_to and _merge were not called.
C5_GenerateWhenEmpty ==
    (pc = "Done" /\ DOMAIN init.prds = {}) =>
        /\ BugfixFalse
        /\ Cardinality(Events("generate")) = 1
        /\ Cardinality(Generated) = 1
        /\ DOMAIN change_files = Generated
        /\ DOMAIN prds = Generated
        /\ \A k \in Generated : prds[k] = change_files[k]
        /\ Events("is_relative_to") = {}
        /\ Events("merge") = {}

C5_Witness ==
    /\ pc = "Done"
    /\ DOMAIN init.prds = {}
    /\ Cardinality(DOMAIN prds) = 1
    /\ result.kind = "Documents"

\* What failed while a stored PRD was classified or merged
ScanFailures ==
    {i \in DOMAIN trace : /\ trace[i].op \in {"is_relative_to", "merge", "save_prd"}
                          /\ trace[i].val = "raise"
                          /\ trace[i].key \in DOMAIN init.prds}

\* The mermaid_to_file and save_as calls that failed
SideEffectFailures ==
    {i \in DOMAIN trace : /\ trace[i].op \in {"mermaid_to_file", "save_as"}
                          /\ trace[i].val = "raise"}

\* The stored PRDs whose merge was saved and exported
MergedOk == {trace[i].key : i \in EventsOf("save_as", "ok")} \cap DOMAIN init.prds

\* C6: a failure while one stored PRD is classified or merged does not keep
\* the other stored PRDs from being classified, and the merges of the other
\* PRDs are stored and returned in the change set.
C6_PerDocumentIsolation ==
    (Ended /\ ScanFailures # {}) =>
        /\ Classified = DOMAIN init.prds
        /\ MergedOk \subseteq DOMAIN change_files
        /\ MergedOk # {} => result.kind = "Documents"

\* C7: a failure of mermaid_to_file or of save_as does not end the run: the
\* run goes on and returns a change set that holds the PRD whose side
\* effect failed.
C7_BestEffortSideEffects ==
    (Ended /\ SideEffectFailures # {}) =>
        /\ pc = "Done"
        /\ result.kind = "Documents"
        /\ \A i \in SideEffectFailures : trace[i].key \in DOMAIN change_files

\* C8: _rename_workspace called with CONFIG.project_path and
\* CONFIG.project_name both bound changes neither and does not call
\* rename_root.
C8_BothBoundNoOp ==
    (PathBound(init.project_path) /\ init.project_name # "") =>
        /\ project_name = init.project_name
        /\ project_path = init.project_path
        /\ Events("rename_root") = {}

\* C9: with CONFIG.project_path bound and no CONFIG.project_name, once a PRD
\* was generated or merged the name is the last segment of the path and
\* rename_root was not called, on the generate path and on the merge path.
C9_NameFromPath ==
    ( /\ PathBound(init.project_path)
      /\ init.project_name = ""
      /\ EventsOf("generate", "ok") \cup EventsOf("merge", "ok") # {} ) =>
        /\ project_name = PathName(init.project_path)
        /\ Events("rename_root") = {}

\* C10: a step of _rename_workspace taken with neither CONFIG.project_path
\* nor CONFIG.project_name bound binds the "Project Name" field of the PRD
\* it was given and calls rename_root once, with that name.
C10_NameFromPrd ==
    [][ ( /\ pc \in {"Generating", "Merging"}
          /\ pc' = "SavePrd"
          /\ ~PathBound(project_path)
          /\ project_name = "" ) =>
            /\ project_name' = prd_doc'.content.name
            /\ Len(trace') = Len(trace) + 2
            /\ trace'[Len(trace')] = Event("rename_root", 0, prd_doc'.content.name)
            /\ trace'[Len(trace) + 1].op # "rename_root" ]_vars

C10_Witness ==
    /\ pc = "SavePrd"
    /\ caller = "tail"
    /\ ~PathBound(init.project_path)
    /\ init.project_name = ""
    /\ project_name = "cand"
    /\ prd_doc.content.name = "cand"
    /\ Cardinality(Events("rename_root")) = 1

\* C11: in one run rename_root is called at most once, on the first name
\* resolution; the later calls of _rename_workspace call nothing.
C11_RenameAtMostOnce ==
    Cardinality(Events("rename_root")) <= 1

\* C12: CONFIG.project_name is bound at most once in a run: its value only
\* changes while it is unbound (""), and once it is bound no step changes
\* it, also when a later PRD of the oracle has an empty "Project Name".
C12_BoundOnce ==
    [][ /\ project_name # "" => project_name' = project_name
        /\ project_name' # project_name => project_name = init.project_name ]_vars

C12_Witness ==
    /\ pc = "SavePrd"
    /\ caller = "loop"
    /\ init.project_name = ""
    /\ project_name = "cand"
    /\ prd_doc.content.name = ""
    /\ Cardinality(EventsOf("merge", "ok")) = 2

\* C13: for an empty requirement text _is_bugfix returns False and makes
\* no call of the oracle.
C13_EmptyTextNoOracle ==
    requirement_doc = "" =>
        /\ Events("is_bugfix") = {}
        /\ pc \notin {"SaveBugfix", "ClearRequirement", "RoutedAsBug"}

\* The bug report is deleted: DeleteBugfix returned
DeleteDone == pc = "GetAll" \/ Events("get_all") # {}

\* C14: when _is_bugfix is False, the bug-report file is deleted before any
\* PRD is enumerated, classified, merged or generated, and from the delete
\* on the file is absent for the rest of the run.
C14_StaleBugDeletedFirst ==
    /\ \A i \in DOMAIN trace :
          trace[i].op \in PrdOps =>
              \E j \in 1 .. (i - 1) :
                  /\ trace[j] = Event("delete", 0, BUGFIX_FILENAME)
                  /\ \E h \in 1 .. (j - 1) : trace[h] = Event("is_bugfix", 0, "False")
    /\ DeleteDone => BUGFIX_FILENAME \notin DOMAIN docs
    /\ (BugfixFalse /\ pc = "Done") => DeleteDone

C14_Witness ==
    /\ pc = "Done"
    /\ BUGFIX_FILENAME \in DOMAIN init.docs
    /\ BUGFIX_FILENAME \notin DOMAIN docs
    /\ Events("is_relative_to") # {}

\* C15: a run that has ended returned a BugFixContext, or returned a
\* change set that is not empty, or raised, and exactly one of the three; on
\* the PRD route it never returns an empty change set.
C15_ThreeOutcomes ==
    Ended =>
        \/ /\ pc = "RoutedAsBug"
           /\ result.kind = "BugFixContext"
           /\ DOMAIN change_files = {}
        \/ /\ pc = "Done"
           /\ result.kind = "Documents"
           /\ DOMAIN change_files # {}
        \/ /\ pc = "Raised"
           /\ result.kind \in {"InputError", "OracleError", "ParseError",
                               "StoreError", "RenderError", "ExportError",
                               "TypeError"}

C15_Witness ==
    /\ pc = "Done"
    /\ result.kind = "Documents"
    /\ DOMAIN init.prds # {}
    /\ Related = {}
    /\ Cardinality(DOMAIN change_files) = 1

\* C18: in a run on the PRD route that returns (nothing failed),
\* _is_relative_to was called exactly once for every stored PRD, also for
\* the PRDs visited after a PRD was merged.
C18_EveryPrdClassified ==
    pc = "Done" =>
        \A k \in DOMAIN init.prds :
            Cardinality({i \in Events("is_relative_to") : trace[i].key = k}) = 1

C18_Witness ==
    /\ pc = "Done"
    /\ Cardinality(DOMAIN init.prds) = 2
    /\ \E i, j \in DOMAIN trace :
          /\ i < j
          /\ trace[i].op = "merge"
          /\ trace[i].val = "ok"
          /\ trace[j].op = "is_relative_to"

Unrelated == {trace[i].key : i \in EventsOf("is_relative_to", "False")}

\* C19: _merge is called for a stored PRD only after _is_relative_to
\* returned True for that PRD in this run; a PRD classified unrelated is
\* not merged, not saved and not in the change set.
C19_MergeOnlyIfRelated ==
    /\ \A i \in Events("merge") :
          \E j \in 1 .. (i - 1) :
              trace[j] = Event("is_relative_to", trace[i].key, "True")
    /\ pc = "Merging" => prd_doc.filename \in Related
    /\ \A k \in Unrelated :
          /\ \A i \in DOMAIN trace :
                trace[i].key = k => trace[i].op = "is_relative_to"
          /\ k \notin DOMAIN change_files
          /\ prds[k] = init.prds[k]

C19_Witness ==
    /\ pc = "Done"
    /\ Unrelated # {}
    /\ Related # {}
    /\ Events("merge") # {}

\* The last call of the trace
Last == trace[Len(trace)]

\* C20: a parse error of the oracle's PRD is raised to the caller of run();
\* when it is the answer to a merge that fails to parse, the PRD keeps its
\* stored content, is not written back and is not in the change set.
C20_ParseErrorSurfaced ==
    result.kind = "ParseError" =>
        /\ pc = "Raised"
        /\ Last.op \in {"merge", "generate"}
        /\ Last.val = "raise"
        /\ Last.op = "merge" =>
              /\ prds[Last.key] = init.prds[Last.key]
              /\ \A i \in Events("save_prd") : trace[i].key # Last.key
              /\ Last.key \notin DOMAIN change_files

C20_Witness ==
    /\ result.kind = "ParseError"
    /\ pc = "Raised"
    /\ Last.op = "merge"
    /\ DOMAIN change_files # {}

\* C17: when the oracle regenerates a stored PRD with the content it has,
\* the save of the merge leaves the PRD repository as it was: the same
\* filenames, each with the content it had; merging again from that state
\* therefore gives the same state.
C17_MergeIdempotent ==
    [][ ( /\ pc = "SavePrd"
          /\ pc' = "SaveCompetitiveAnalysis"
          /\ caller = "loop"
          /\ prd_doc.content = prds[prd_doc.filename] ) =>
            /\ prds' = prds
            /\ prd_doc' = prd_doc
            /\ prd_doc.filename \in DOMAIN init.prds ]_vars

C17_Witness ==
    /\ pc = "SaveCompetitiveAnalysis"
    /\ caller = "loop"
    /\ Last = Event("save_prd", prd_doc.filename, "ok")
    /\ prd_doc.content = init.prds[prd_doc.filename]
    /\ prds = init.prds

----------------------------------------------------------------------------
(* The two classifiers on their own: _is_bugfix and _is_relative_to applied *)
(* to an oracle answer                                                      *)

Answers == UNION {[1 .. n -> Alphabet] : n \in 0 .. MaxAnswerLen}

InitClassify ==
    /\ pc = "Classify"
    /\ answer \in Answers
    /\ docs = [x \in {REQUIREMENT_FILENAME} |-> "req"]
    /\ prds = [k \in {1} |-> StoredPrd]
    /\ project_name = ""
    /\ project_path = PathNone
    /\ requirement_doc = "req"
    /\ prd_docs = {}
    /\ prd_doc = Document(1, StoredPrd)
    /\ change_files = EmptyDocs
    /\ caller = "none"
    /\ result = [kind |-> "none", filename |-> ""]
    /\ trace = <<>>
    /\ init = [docs |-> docs, prds |-> prds,
               project_name |-> project_name, project_path |-> project_path]

\* _is_bugfix with res = answer: if "YES" in res: return True; return False
ClassifyBugfix ==
    /\ pc = "Classify"
    /\ pc' = "Classified"
    /\ trace' = Append(trace, Event("is_bugfix", 0,
                        IF ContainsYES(answer) THEN "True" ELSE "False"))
    /\ UNCHANGED <<docs, prds, project_name, project_path, requirement_doc,
                   prd_docs, prd_doc, change_files, result, caller, init, answer>>

\* _is_relative_to with res = answer
ClassifyRelative ==
    /\ pc = "Classify"
    /\ pc' = "Classified"
    /\ trace' = Append(trace, Event("is_relative_to", prd_doc.filename,
                        IF ContainsYES(answer) THEN "True" ELSE "False"))
    /\ UNCHANGED <<docs, prds, project_name, project_path, requirement_doc,
                   prd_docs, prd_doc, change_files, result, caller, init, answer>>

NextClassify ==
    \/ ClassifyBugfix
    \/ ClassifyRelative

SpecClassify == InitClassify /\ [][NextClassify]_vars

\* The marker occurs somewhere in the answer
Occurs(marker, s) ==
    \E i \in 1 .. (Len(s) - Len(marker) + 1) :
        SubSeq(s, i, i + Len(marker) - 1) = marker

\* C16: _is_bugfix and _is_relative_to return True exactly when YES occurs
\* somewhere in the oracle's answer; an answer with neither YES nor NO in it
\* gives False.
C16_YesBySubstring ==
    pc = "Classified" =>
        /\ Last.op \in {"is_bugfix", "is_relative_to"}
        /\ Last.val = "True" <=> Occurs(<<"Y", "E", "S">>, answer)
        /\ Last.val = "False" <=> ~Occurs(<<"Y", "E", "S">>, answer)
        /\ (~Occurs(<<"Y", "E", "S">>, answer) /\ ~Occurs(<<"N", "O">>, answer))
              => Last.val = "False"

C16_Witness ==
    /\ pc = "Classified"
    /\ answer = <<"N", "Y", "E", "S">>
    /\ Last = Event("is_relative_to", 1, "True")

----------------------------------------------------------------------------

\* The text the requirement file had when run() read it
OriginalText == init.docs[REQUIREMENT_FILENAME]

\* C21: on the bug route the text of the requirement is stored under the
\* requirement file or under the bug-report file in every state, also after
\* a save that failed: the bug report is saved before the requirement is
\* cleared.
C21_TextNeverLost ==
    BugfixTrue =>
        \/ /\ REQUIREMENT_FILENAME \in DOMAIN docs
           /\ docs[REQUIREMENT_FILENAME] = OriginalText
        \/ /\ BUGFIX_FILENAME \in DOMAIN docs
           /\ docs[BUGFIX_FILENAME] = OriginalText

C21_Witness ==
    /\ BugfixTrue
    /\ pc = "Raised"
    /\ result.kind = "StoreError"
    /\ Last = Event("save", 0, REQUIREMENT_FILENAME)
    /\ OriginalText = "req"
    /\ docs[REQUIREMENT_FILENAME] = "req"
    /\ docs[BUGFIX_FILENAME] = "req"

\* The calls of op for the file k that returned
Completed(op, k) == {i \in EventsOf(op, "ok") : trace[i].key = k}

\* C22: every entry of change_files is a document that was saved to the
\* PRD repository and exported before it was recorded: its filename is in
\* the repository with the content of the entry.  (A document can be in the
\* repository and not in change_files: C22_Witness.)
C22_RecordedAfterSaved ==
    \A k \in DOMAIN change_files :
        /\ k \in DOMAIN prds
        /\ prds[k] = change_files[k]
        /\ \E i \in Completed("save_prd", k) :
              \E j \in Completed("save_as", k) : i < j
        /\ change_files[k].chart # "" =>
              \E i \in Completed("save_prd", k) :
                  \E j \in Completed("mermaid_to_file", k) : i < j

\* A merged PRD was recorded with new content, and the next one was saved
\* but its export failed: it is in the repository and not in change_files.
C22_Witness ==
    /\ pc = "Raised"
    /\ Last.op = "save_as"
    /\ Last.val = "raise"
    /\ Last.key \in DOMAIN init.prds
    /\ Last.key \notin DOMAIN change_files
    /\ prds[Last.key] = prd_doc.content
    /\ prds[Last.key] # init.prds[Last.key]
    /\ \E k \in DOMAIN change_files : change_files[k] # init.prds[k]

====
